---- MODULE Spec2Model ----
(***************************************************************************)
(* A model of the per-account ledger of ChetanBhasin/track                 *)
(* (src/src/account.rs): AccountState and AccountState::transact, driven   *)
(* by the five kinds of Transaction (src/src/transaction.rs), and of the   *)
(* registries and the shard router above it (src/src/system.rs).           *)
(*                                                                         *)
(* Spec drives one ledger; SpecSys drives a ShardedAccountSystem with      *)
(* several clients and ends with its write().                              *)
(*                                                                         *)
(* Amounts are rust_decimal values rounded to 4 places; they are modelled  *)
(* as integers counting units of 0.0001, on which +, - and > are exact.    *)
(***************************************************************************)
EXTENDS Integers, FiniteSets, Sequences, TLC

\* Bounds of the model.
MaxSteps == 6      \* transactions applied to the account in one behaviour
MaxTx == 1         \* transaction ids are 0..MaxTx
MaxAmount == 2     \* deposit and withdrawal amounts are 1..MaxAmount
MaxClient == 1     \* client ids are 0..MaxClient
MaxShards == 2     \* ShardedAccountSystem::new is called with 0..MaxShards
MaxSysSteps == 3   \* transactions given to the sharded system in one behaviour

TxIds == 0..MaxTx
Amounts == 1..MaxAmount
Clients == 0..MaxClient

VARIABLES
    account,    \* the AccountState: held, total, chargebacks, deposits
    prev,       \* the AccountState as it was when the last transact() was entered
    last,       \* the Transaction given to the last transact()
    steps,      \* number of transactions applied so far
    withdrawn,  \* tx ids carried by the Withdrawal transactions applied so far
    dBase,      \* held and available() where the current run of Disputes began
    dSet,       \* tx ids disputed (record present, once each) in the current run
    charged     \* tx ids whose Chargeback fired with no Dispute of that tx since

VARIABLES
    shards,     \* the shard count given to ShardedAccountSystem::new
    ring,       \* the HashRing: the shard indices added, and where keys fall on it
    systems,    \* the Vec<AccountSystem>: shard index -> (client id -> AccountState)
    output,     \* the rows serialized by write(), with how often each was written
    written,    \* whether write() has run
    solo,       \* per client, a standalone ledger given that client's transactions only
    referenced, \* client ids of the transactions given to the system so far
    sysSteps    \* number of transactions given to the system so far

accountVars == <<account, prev, last, steps, withdrawn, dBase, dSet, charged>>

sysVars == <<shards, ring, systems, output, written, solo, referenced, sysSteps>>

vars == <<account, prev, last, steps, withdrawn, dBase, dSet, charged,
          shards, ring, systems, output, written, solo, referenced, sysSteps>>

----------------------------------------------------------------------------
\* DepositState::new
DepositState_new(amount) ==
    [amount |-> amount, dispute |-> FALSE, chargeback |-> FALSE]

\* AccountState::new
AccountState_new ==
    [held |-> 0, total |-> 0, chargebacks |-> 0, deposits |-> <<>>]

\* available() that reads total alone, as if a dispute had left total reduced
availableTotalOnly(a) == a.total

\* AccountState::available
available(a) == a.total - a.held

\* AccountState::locked
locked(a) == a.chargebacks # 0

\* HashMap::insert on the deposits map: adds the key or replaces its value
insert(d, tx, v) ==
    [k \in (DOMAIN d) \cup {tx} |-> IF k = tx THEN v ELSE d[k]]

\* Deposit that forgets the early return of a locked account
transactDepositNoLock(a, tx, amount) ==
    [a EXCEPT !.total = @ + amount,
              !.deposits = insert(@, tx, DepositState_new(amount))]

\* Deposit that keeps an earlier record of the same tx (entry().or_insert())
transactDepositKeepExisting(a, tx, amount) ==
    IF locked(a)
    THEN a
    ELSE [a EXCEPT !.total = @ + amount,
                   !.deposits = IF tx \in DOMAIN @ THEN @
                                ELSE insert(@, tx, DepositState_new(amount))]

\* Deposit that records the deposit before it tests the lock
transactDepositInsertBeforeLockCheck(a, tx, amount) ==
    IF locked(a)
    THEN [a EXCEPT !.deposits = insert(@, tx, DepositState_new(amount))]
    ELSE [a EXCEPT !.total = @ + amount,
                   !.deposits = insert(@, tx, DepositState_new(amount))]

\* transact, arm Transaction::Deposit
transactDeposit(a, tx, amount) ==
    IF locked(a)
    THEN a
    ELSE [a EXCEPT !.total = @ + amount,
                   !.deposits = insert(@, tx, DepositState_new(amount))]

\* Withdrawal that does not compare the amount with available()
transactWithdrawalNoFundsCheck(a, amount) ==
    IF locked(a)
    THEN a
    ELSE [a EXCEPT !.total = @ - amount]

\* Withdrawal that accepts amount == available() (>= for >)
transactWithdrawalGE(a, amount) ==
    IF locked(a)
    THEN a
    ELSE IF available(a) >= amount
         THEN [a EXCEPT !.total = @ - amount]
         ELSE a

\* transact, arm Transaction::Withdrawal
transactWithdrawal(a, amount) ==
    IF locked(a)
    THEN a
    ELSE IF available(a) > amount
         THEN [a EXCEPT !.total = @ - amount]
         ELSE a

\* Dispute that returns early on a locked account, as Deposit does
transactDisputeLockChecked(a, tx) ==
    IF locked(a)
    THEN a
    ELSE IF tx \in DOMAIN a.deposits
         THEN [a EXCEPT !.deposits[tx].dispute = TRUE,
                        !.held = @ + a.deposits[tx].amount]
         ELSE a

\* Dispute that creates an empty disputed record for an unknown tx
\* (entry(tx).or_insert(..) for get_mut(&tx))
transactDisputeOrInsert(a, tx) ==
    IF tx \in DOMAIN a.deposits
    THEN [a EXCEPT !.deposits[tx].dispute = TRUE,
                   !.held = @ + a.deposits[tx].amount]
    ELSE [a EXCEPT !.deposits =
              insert(@, tx, [amount |-> 0, dispute |-> TRUE, chargeback |-> FALSE])]

\* Dispute that assigns held instead of adding to it (= for +=)
transactDisputeAssign(a, tx) ==
    IF tx \in DOMAIN a.deposits
    THEN [a EXCEPT !.deposits[tx].dispute = TRUE,
                   !.held = a.deposits[tx].amount]
    ELSE a

\* Dispute that also takes the amount out of total
transactDisputeMoveTotal(a, tx) ==
    IF tx \in DOMAIN a.deposits
    THEN [a EXCEPT !.deposits[tx].dispute = TRUE,
                   !.total = @ - a.deposits[tx].amount,
                   !.held = @ + a.deposits[tx].amount]
    ELSE a

\* transact, arm Transaction::Dispute
transactDispute(a, tx) ==
    IF tx \in DOMAIN a.deposits
    THEN [a EXCEPT !.deposits[tx].dispute = TRUE,
                   !.held = @ + a.deposits[tx].amount]
    ELSE a

\* Resolve that takes back the chargeback of the record it resolves
transactResolveUndoChargeback(a, tx) ==
    IF tx \in DOMAIN a.deposits
    THEN [a EXCEPT !.deposits[tx].dispute = FALSE,
                   !.total = @ + a.deposits[tx].amount,
                   !.held = @ - a.deposits[tx].amount,
                   !.chargebacks = IF a.deposits[tx].chargeback THEN @ - 1 ELSE @]
    ELSE a

\* transact, arm Transaction::Resolve
transactResolve(a, tx) ==
    IF tx \in DOMAIN a.deposits
    THEN [a EXCEPT !.deposits[tx].dispute = FALSE,
                   !.total = @ + a.deposits[tx].amount,
                   !.held = @ - a.deposits[tx].amount]
    ELSE a

\* Chargeback that does not test the record's dispute flag
transactChargebackNoDisputeCheck(a, tx) ==
    IF tx \in DOMAIN a.deposits
    THEN [a EXCEPT !.deposits[tx].chargeback = TRUE,
                   !.chargebacks = @ + 1]
    ELSE a

\* Chargeback that also takes the disputed amount out of held and total
transactChargebackReleasesHeld(a, tx) ==
    IF tx \in DOMAIN a.deposits
    THEN IF a.deposits[tx].dispute
         THEN [a EXCEPT !.deposits[tx].chargeback = TRUE,
                        !.held = @ - a.deposits[tx].amount,
                        !.total = @ - a.deposits[tx].amount,
                        !.chargebacks = @ + 1]
         ELSE a
    ELSE a

\* transact, arm Transaction::Chargeback.  chargebacks is a u32; it counts at
\* most one per transaction, so it stays below MaxSteps and far from 2^32.
transactChargeback(a, tx) ==
    IF tx \in DOMAIN a.deposits
    THEN IF a.deposits[tx].dispute
         THEN [a EXCEPT !.deposits[tx].chargeback = TRUE,
                        !.chargebacks = @ + 1]
         ELSE a
    ELSE a

\* AccountState::transact
transact(a, t) ==
    CASE t.kind = "Deposit"    -> transactDeposit(a, t.tx, t.amount)
      [] t.kind = "Withdrawal" -> transactWithdrawal(a, t.amount)
      [] t.kind = "Dispute"    -> transactDispute(a, t.tx)
      [] t.kind = "Resolve"    -> transactResolve(a, t.tx)
      [] t.kind = "Chargeback" -> transactChargeback(a, t.tx)


----------------------------------------------------------------------------
\* The registries and the router (system.rs).

\* Transaction::id
Transaction_id(t) == t.client

\* AccountSystem::new: an empty accounts map
AccountSystem_new == <<>>

\* AccountSystem::transact that creates the ledger but drops the transaction
\* that created it
AccountSystem_transactDropsFirst(accounts, t) ==
    IF Transaction_id(t) \in DOMAIN accounts
    THEN [accounts EXCEPT ![Transaction_id(t)] = transact(@, t)]
    ELSE [c \in (DOMAIN accounts) \cup {Transaction_id(t)} |->
              IF c = Transaction_id(t) THEN AccountState_new ELSE accounts[c]]

\* AccountSystem::transact that keeps a new ledger only if the transaction
\* changed it
AccountSystem_transactSkipsEmpty(accounts, t) ==
    IF Transaction_id(t) \in DOMAIN accounts
    THEN [accounts EXCEPT ![Transaction_id(t)] = transact(@, t)]
    ELSE IF transact(AccountState_new, t) = AccountState_new
         THEN accounts
         ELSE [c \in (DOMAIN accounts) \cup {Transaction_id(t)} |->
                  IF c = Transaction_id(t) THEN transact(AccountState_new, t)
                  ELSE accounts[c]]

\* AccountSystem::transact: the client's ledger if there is one, else a new
\* ledger, which is inserted after the transaction was applied to it
AccountSystem_transact(accounts, t) ==
    IF Transaction_id(t) \in DOMAIN accounts
    THEN [accounts EXCEPT ![Transaction_id(t)] = transact(@, t)]
    ELSE [c \in (DOMAIN accounts) \cup {Transaction_id(t)} |->
              IF c = Transaction_id(t) THEN transact(AccountState_new, t)
              ELSE accounts[c]]

\* the Output row of one account, as AccountSystem::write builds it
Output(client, a) ==
    [client |-> client, available |-> available(a), held |-> a.held,
     total |-> a.total, locked |-> locked(a)]

\* AccountSystem::write: one row per entry of accounts
AccountSystem_write(accounts) ==
    {Output(c, accounts[c]) : c \in DOMAIN accounts}

\* ShardedAccountSystem::new with one shard too many (0..=shards)
ShardedAccountSystem_newInclusive(count) ==
    [nodes |-> 0..count,
     systems |-> [shard \in 0..count |-> AccountSystem_new]]

\* ShardedAccountSystem::new: count empty registries, and a ring to which
\* the indices 0..count-1 were added
ShardedAccountSystem_new(count) ==
    [nodes |-> 0..(count - 1),
     systems |-> [shard \in 0..(count - 1) |-> AccountSystem_new]]

\* Where the keys can fall on a ring of these nodes.  The hash of the
\* hashring crate is a fixed function that the model does not compute: any
\* assignment of the client ids to the nodes is possible, and none if the
\* ring is empty.
Placements(nodes) ==
    IF nodes = {} THEN {<<>>} ELSE [Clients -> nodes]

\* HashRing::get: None (the empty set) on an empty ring, else the node that
\* owns the key
HashRing_get(r, id) ==
    IF r.nodes = {} THEN {} ELSE {r.place[id]}

\* number of ledgers held by all registries together
RECURSIVE CountAccounts(_, _)
CountAccounts(sys, S) ==
    IF S = {} THEN 0
    ELSE LET shard == CHOOSE x \in S : TRUE
         IN Cardinality(DOMAIN sys[shard]) + CountAccounts(sys, S \ {shard})

\* ShardedAccountSystem::transact that spreads the transactions over the
\* shards by load instead of asking the ring
ShardedAccountSystem_transactByLoad(r, sys, t) ==
    IF r.nodes = {} THEN sys
    ELSE LET shard == CountAccounts(sys, DOMAIN sys) % Cardinality(r.nodes)
         IN [sys EXCEPT ![shard] = AccountSystem_transact(@, t)]

\* ShardedAccountSystem::transact: the ring picks the shard by the client id;
\* without a shard the transaction is dropped
ShardedAccountSystem_transact(r, sys, t) ==
    LET found == HashRing_get(r, Transaction_id(t))
    IN IF found = {} THEN sys
       ELSE LET shard == CHOOSE x \in found : TRUE
            IN [sys EXCEPT ![shard] = AccountSystem_transact(@, t)]

\* ShardedAccountSystem::write: the rows of every shard; a row written by
\* several shards is counted as often
ShardedAccountSystem_write(sys) ==
    LET rows == UNION {AccountSystem_write(sys[shard]) : shard \in DOMAIN sys}
    IN [row \in rows |->
           Cardinality({shard \in DOMAIN sys : row \in AccountSystem_write(sys[shard])})]

\* The transactions the input of the sharded system can hold.  Two tx ids and
\* two amounts tell the ledgers of different clients and the order of one
\* client's transactions apart; Spec covers the ledger itself more widely.
SysTxIds == {0, 1}
SysAmounts == {1, 2}

Transactions ==
    [kind : {"Deposit", "Withdrawal"}, client : Clients, tx : SysTxIds, amount : SysAmounts]
    \cup [kind : {"Dispute", "Resolve", "Chargeback"}, client : Clients, tx : SysTxIds]

----------------------------------------------------------------------------
\* The run of Disputes: a Dispute of an existing record not yet in the run
\* extends it; any other transaction starts a new, empty run at its result.
ExtendsRun(t) ==
    /\ t.kind = "Dispute"
    /\ t.tx \in DOMAIN account.deposits
    /\ t.tx \notin dSet

\* A Chargeback that finds its record disputed: the one that counts
Fires(t) ==
    /\ t.kind = "Chargeback"
    /\ t.tx \in DOMAIN account.deposits
    /\ account.deposits[t.tx].dispute

\* One call of account.transact(t)
Apply(t) ==
    /\ steps < MaxSteps
    /\ account' = transact(account, t)
    /\ prev' = account
    /\ last' = t
    /\ steps' = steps + 1
    /\ withdrawn' = IF t.kind = "Withdrawal" THEN withdrawn \cup {t.tx} ELSE withdrawn
    /\ IF ExtendsRun(t)
       THEN /\ dSet' = dSet \cup {t.tx}
            /\ dBase' = dBase
       ELSE /\ dSet' = {}
            /\ dBase' = [held |-> account'.held, avail |-> available(account')]
    /\ charged' = IF Fires(t) THEN charged \cup {t.tx}
                  ELSE IF t.kind = "Dispute" THEN charged \ {t.tx}
                  ELSE charged
    /\ UNCHANGED sysVars

\* no sharded system is in use
SysIdle ==
    /\ shards = 0
    /\ ring = [nodes |-> {}, place |-> <<>>]
    /\ systems = <<>>
    /\ output = <<>>
    /\ written = FALSE
    /\ solo = [c \in Clients |-> AccountState_new]
    /\ referenced = {}
    /\ sysSteps = 0

AccountInit ==
    /\ account = AccountState_new
    /\ prev = AccountState_new
    /\ last = [kind |-> "None"]
    /\ steps = 0
    /\ withdrawn = {}
    /\ dBase = [held |-> 0, avail |-> 0]
    /\ dSet = {}
    /\ charged = {}

Init ==
    /\ SysIdle
    /\ AccountInit

Deposit ==
    \E tx \in TxIds, amount \in Amounts :
        Apply([kind |-> "Deposit", tx |-> tx, amount |-> amount])

Withdrawal ==
    \E tx \in TxIds, amount \in Amounts :
        Apply([kind |-> "Withdrawal", tx |-> tx, amount |-> amount])

Dispute ==
    \E tx \in TxIds : Apply([kind |-> "Dispute", tx |-> tx])

Resolve ==
    \E tx \in TxIds : Apply([kind |-> "Resolve", tx |-> tx])

Chargeback ==
    \E tx \in TxIds : Apply([kind |-> "Chargeback", tx |-> tx])

Next == Deposit \/ Withdrawal \/ Dispute \/ Resolve \/ Chargeback

Spec == Init /\ [][Next]_vars

----------------------------------------------------------------------------
\* The run of main: ShardedAccountSystem::new, transact for every record of
\* the input, then write.

InitSys ==
    /\ AccountInit
    /\ \E n \in 0..MaxShards :
           LET new == ShardedAccountSystem_new(n)
           IN /\ shards = n
              /\ systems = new.systems
              /\ \E place \in Placements(new.nodes) :
                     ring = [nodes |-> new.nodes, place |-> place]
    /\ output = <<>>
    /\ written = FALSE
    /\ solo = [c \in Clients |-> AccountState_new]
    /\ referenced = {}
    /\ sysSteps = 0

\* system.transact(record.try_into()?) for one record of the input
Transact ==
    /\ ~written
    /\ sysSteps < MaxSysSteps
    /\ \E t \in Transactions :
           /\ systems' = ShardedAccountSystem_transact(ring, systems, t)
           /\ solo' = [solo EXCEPT ![Transaction_id(t)] = transact(@, t)]
           /\ referenced' = referenced \cup {Transaction_id(t)}
    /\ sysSteps' = sysSteps + 1
    /\ UNCHANGED <<shards, ring, output, written>>
    /\ UNCHANGED accountVars

\* system.write(&mut wtr) at the end of the input
Write ==
    /\ ~written
    /\ output' = ShardedAccountSystem_write(systems)
    /\ written' = TRUE
    /\ UNCHANGED <<shards, ring, systems, solo, referenced, sysSteps>>
    /\ UNCHANGED accountVars

NextSys == Transact \/ Write

SpecSys == InitSys /\ [][NextSys]_vars

----------------------------------------------------------------------------
\* Properties of one call: prev is the ledger the call found, last the
\* transaction, account the ledger it left.

HasRecord(a, tx) == tx \in DOMAIN a.deposits

Disputed(a, tx) == HasRecord(a, tx) /\ a.deposits[tx].dispute

RECURSIVE SumAmounts(_, _)
SumAmounts(d, S) ==
    IF S = {} THEN 0
    ELSE LET tx == CHOOSE x \in S : TRUE
         IN d[tx].amount + SumAmounts(d, S \ {tx})

\* C1: on an unlocked account a Withdrawal of amount a takes exactly a from
\* total if and only if a < available() before it; a rejected withdrawal
\* leaves the whole ledger as it was; held, the chargeback counter and the
\* deposit records never change.
C1_WithdrawalStrict ==
    (last.kind = "Withdrawal" /\ ~locked(prev)) =>
        /\ (account.total = prev.total - last.amount)
               <=> (last.amount < available(prev))
        /\ (last.amount >= available(prev)) => (account = prev)
        /\ account.held = prev.held
        /\ account.chargebacks = prev.chargebacks
        /\ account.deposits = prev.deposits

\* a withdrawal of the whole available balance was rejected
C1_Witness ==
    /\ last.kind = "Withdrawal"
    /\ ~locked(prev)
    /\ last.amount = available(prev)
    /\ account = prev

\* C2: locked() holds exactly when the chargeback counter is above 0, and no
\* transaction unlocks a locked account or lowers the counter.
C2_LockPermanence ==
    /\ locked(account) <=> (account.chargebacks > 0)
    /\ locked(prev) => locked(account)
    /\ account.chargebacks >= prev.chargebacks

\* the charged-back record itself was resolved, and the account is still locked
C2_Witness ==
    /\ last.kind = "Resolve"
    /\ HasRecord(prev, last.tx)
    /\ prev.deposits[last.tx].chargeback
    /\ prev.chargebacks = 1
    /\ locked(account)

C4_DisputesAfterLock ==
    (locked(prev) /\ last.kind \in {"Dispute", "Resolve", "Chargeback"}
                  /\ HasRecord(prev, last.tx)) =>
        LET amt == prev.deposits[last.tx].amount IN
        /\ locked(account)
        /\ last.kind = "Dispute" =>
              /\ account.held = prev.held + amt
              /\ available(account) = available(prev) - amt
              /\ account.deposits[last.tx].dispute
        /\ (last.kind = "Resolve" /\ Disputed(prev, last.tx)) =>
              /\ account.held = prev.held - amt
              /\ ~account.deposits[last.tx].dispute
        /\ (last.kind = "Chargeback" /\ Disputed(prev, last.tx)) =>
              /\ account.chargebacks = prev.chargebacks + 1
              /\ account.deposits[last.tx].chargeback

\* after the chargeback of one deposit, another deposit was disputed
C4_Witness ==
    /\ last.kind = "Dispute"
    /\ locked(prev)
    /\ HasRecord(prev, last.tx)
    /\ ~prev.deposits[last.tx].chargeback
    /\ ~prev.deposits[last.tx].dispute
    /\ account.held = prev.held + prev.deposits[last.tx].amount

\* C5: a Chargeback whose tx has no deposit record, or whose record is not
\* disputed, changes nothing: the counter is not incremented and the account
\* does not become locked.
C5_ChargebackNoOp ==
    (last.kind = "Chargeback" /\ ~Disputed(prev, last.tx)) =>
        /\ account = prev
        /\ account.chargebacks = prev.chargebacks
        /\ locked(account) = locked(prev)

\* a chargeback named an existing, undisputed deposit of an unlocked account
C5_Witness ==
    /\ last.kind = "Chargeback"
    /\ HasRecord(prev, last.tx)
    /\ ~prev.deposits[last.tx].dispute
    /\ ~locked(prev)
    /\ ~locked(account)

\* C6: a Resolve whose tx has no deposit record, or whose record is not
\* disputed, changes nothing: total, held, available and the record's flags
\* are as before.
C6_ResolveNoOp ==
    (last.kind = "Resolve" /\ ~Disputed(prev, last.tx)) =>
        /\ account.total = prev.total
        /\ account.held = prev.held
        /\ available(account) = available(prev)
        /\ account.deposits = prev.deposits

\* C7: Dispute(tx) of an existing, undisputed record followed at once by
\* Resolve(tx) restores total, held, available and the record's dispute flag
\* to what they were before the Dispute.  (In such a step prev is the ledger
\* before the Dispute and account' the ledger after the Resolve.)
C7_ResolveReversesDispute ==
    [][ ( /\ last.kind = "Dispute"
          /\ HasRecord(prev, last.tx)
          /\ ~prev.deposits[last.tx].dispute
          /\ last'.kind = "Resolve"
          /\ last'.tx = last.tx )
        => /\ account'.total = prev.total
           /\ account'.held = prev.held
           /\ available(account') = available(prev)
           /\ account'.deposits[last.tx].dispute = prev.deposits[last.tx].dispute
      ]_vars

\* C8: a Dispute whose tx has no deposit record (an id never seen, or the id
\* of a withdrawal) changes nothing.
C8_DisputeUnknownNoOp ==
    (last.kind = "Dispute" /\ ~HasRecord(prev, last.tx)) =>
        /\ account = prev
        /\ available(account) = available(prev)

\* the id of an earlier withdrawal was disputed
C8_Witness ==
    /\ last.kind = "Dispute"
    /\ ~HasRecord(prev, last.tx)
    /\ last.tx \in withdrawn
    /\ prev.total > 0

\* C9: after Disputes of distinct existing records, each once, held has grown
\* and available has shrunk by the sum of the disputed deposits' amounts, and
\* every one of those records has its dispute flag set.
C9_DisputesAccumulate ==
    /\ dSet \subseteq DOMAIN account.deposits
    /\ account.held = dBase.held + SumAmounts(account.deposits, dSet)
    /\ available(account) = dBase.avail - SumAmounts(account.deposits, dSet)
    /\ \A tx \in dSet : account.deposits[tx].dispute

\* two deposits of different amounts are disputed together
C9_Witness ==
    /\ Cardinality(dSet) >= 2
    /\ \E t1, t2 \in dSet : account.deposits[t1].amount # account.deposits[t2].amount

\* C10 as stated: a Dispute of an existing record takes the deposit's amount
\* out of total and adds it to held.
C10_DisputeMovesTotalToHeld ==
    (last.kind = "Dispute" /\ HasRecord(prev, last.tx)) =>
        /\ account.total = prev.total - prev.deposits[last.tx].amount
        /\ account.held = prev.held + prev.deposits[last.tx].amount

\* C10 amended: a Dispute of an existing record adds the deposit's amount to
\* held and leaves total as it is, so available drops by that amount; the
\* record's amount is unchanged.
C10_DisputeHoldsAmount ==
    (last.kind = "Dispute" /\ HasRecord(prev, last.tx)) =>
        /\ account.total = prev.total
        /\ account.held = prev.held + prev.deposits[last.tx].amount
        /\ available(account) = available(prev) - prev.deposits[last.tx].amount
        /\ account.deposits[last.tx].amount = prev.deposits[last.tx].amount

\* an undisputed deposit was disputed
C10_Witness ==
    /\ last.kind = "Dispute"
    /\ HasRecord(prev, last.tx)
    /\ ~prev.deposits[last.tx].dispute
    /\ account.total = prev.total
    /\ account.total > 0

\* the records of a whose dispute flag is set
OpenDisputes(a) == {tx \in DOMAIN a.deposits : a.deposits[tx].dispute}

\* C15: after every transaction of every sequence applied to a fresh account,
\* available() equals total - held.
C15_AvailableIsTotalMinusHeld ==
    available(account) = account.total - account.held

\* funds are held, so available() and total differ
C15_Witness ==
    /\ last.kind \in {"Dispute", "Resolve"}
    /\ account.held # 0
    /\ account.total # 0
    /\ available(account) # account.total

\* C16: a Deposit(tx, amount) on an unlocked account adds amount to total,
\* leaves held and the counter alone and stores (amount, FALSE, FALSE) under
\* tx, replacing an earlier record of that tx without adjusting held for it;
\* the other records are unchanged.
C16_DepositEffect ==
    (last.kind = "Deposit" /\ ~locked(prev)) =>
        /\ account.total = prev.total + last.amount
        /\ account.held = prev.held
        /\ account.chargebacks = prev.chargebacks
        /\ DOMAIN account.deposits = (DOMAIN prev.deposits) \cup {last.tx}
        /\ account.deposits[last.tx] =
               [amount |-> last.amount, dispute |-> FALSE, chargeback |-> FALSE]
        /\ \A tx \in (DOMAIN prev.deposits) \ {last.tx} :
               account.deposits[tx] = prev.deposits[tx]

\* a deposit reused the tx id of a disputed deposit of another amount
C16_Witness ==
    /\ last.kind = "Deposit"
    /\ ~locked(prev)
    /\ Disputed(prev, last.tx)
    /\ prev.deposits[last.tx].amount # last.amount
    /\ account.held = prev.held
    /\ ~account.deposits[last.tx].dispute

\* C17: a record whose chargeback flag is set is still there, with the flag
\* set, after every later transaction.
C17_ChargebackFlagStays ==
    \A tx \in DOMAIN prev.deposits :
        prev.deposits[tx].chargeback =>
            /\ HasRecord(account, tx)
            /\ account.deposits[tx].chargeback

\* a deposit reused the tx id of a charged-back deposit
C17_Witness ==
    /\ last.kind = "Deposit"
    /\ HasRecord(prev, last.tx)
    /\ prev.deposits[last.tx].chargeback
    /\ account.deposits[last.tx].chargeback

\* C18: once a Chargeback has fired for tx, another Chargeback of tx
\* increments the counter only if a Dispute of tx was applied in between.
C18_ChargebackOncePerDispute ==
    [][ (last'.kind = "Chargeback" /\ last'.tx \in charged)
        => account'.chargebacks = account.chargebacks ]_vars

\* C19: a Chargeback that fires sets its record's chargeback flag and adds 1
\* to the counter and changes nothing else: total, held, available, the
\* record's amount and dispute flag and every other record stay.
C19_ChargebackFrame ==
    (last.kind = "Chargeback" /\ Disputed(prev, last.tx)) =>
        /\ account.chargebacks = prev.chargebacks + 1
        /\ account.total = prev.total
        /\ account.held = prev.held
        /\ available(account) = available(prev)
        /\ DOMAIN account.deposits = DOMAIN prev.deposits
        /\ account.deposits[last.tx] =
               [amount |-> prev.deposits[last.tx].amount,
                dispute |-> TRUE, chargeback |-> TRUE]
        /\ \A tx \in (DOMAIN prev.deposits) \ {last.tx} :
               account.deposits[tx] = prev.deposits[tx]

\* the first chargeback of an account fired and its amount is still held
C19_Witness ==
    /\ last.kind = "Chargeback"
    /\ Disputed(prev, last.tx)
    /\ ~prev.deposits[last.tx].chargeback
    /\ account.held >= prev.deposits[last.tx].amount
    /\ account.chargebacks = 1

\* C20: in every reachable state held is the sum of the amounts of the
\* records whose dispute flag is set.
C20_HeldIsOpenDisputes ==
    account.held = SumAmounts(account.deposits, OpenDisputes(account))

----------------------------------------------------------------------------
\* Properties of the sharded system (SpecSys).

\* the shards whose registry holds a ledger of client c
ShardsOf(c) == {shard \in DOMAIN systems : c \in DOMAIN systems[shard]}

\* the ledgers the system holds for client c
LedgersOf(c) == {systems[shard][c] : shard \in ShardsOf(c)}

\* how many rows of the output carry client id c
RECURSIVE RowCount(_, _, _)
RowCount(out, rows, c) ==
    IF rows = {} THEN 0
    ELSE LET row == CHOOSE x \in rows : TRUE
         IN (IF row.client = c THEN out[row] ELSE 0) + RowCount(out, rows \ {row}, c)

\* C11: with at least one shard, after every prefix of the input the ledger
\* the system holds for a client is the ledger that the client's own
\* transactions, in input order, give a fresh standalone ledger; a client
\* without transactions has none.
C11_PerClientOrderAndIsolation ==
    (shards >= 1) =>
        \A c \in Clients :
            LedgersOf(c) = IF c \in referenced THEN {solo[c]} ELSE {}

\* two clients of one shard, their transactions interleaved, one ledger with
\* a dispute on a deposit and the other with a deposit only
C11_Witness ==
    /\ sysSteps = 3
    /\ \E c1, c2 \in Clients :
          /\ c1 # c2
          /\ ShardsOf(c1) = ShardsOf(c2)
          /\ ShardsOf(c1) # {}
          /\ solo[c1].held > 0
          /\ solo[c2].total > 0
          /\ solo[c2].held = 0
          /\ LedgersOf(c1) = {solo[c1]}
          /\ LedgersOf(c2) = {solo[c2]}

\* C12: with at least one shard, the shard of a client is the node the ring
\* gives for its id, an index below the shard count, whatever was applied
\* before: every ledger of a client is in the registry of that shard, and so
\* never in two registries.
C12_RoutingDeterminism ==
    (shards >= 1) =>
        /\ ring.nodes = 0..(shards - 1)
        /\ DOMAIN systems = 0..(shards - 1)
        /\ \A c \in Clients :
              /\ HashRing_get(ring, c) \subseteq DOMAIN systems
              /\ Cardinality(HashRing_get(ring, c)) = 1
              /\ ShardsOf(c) \subseteq HashRing_get(ring, c)
              /\ Cardinality(ShardsOf(c)) <= 1

\* two clients have their ledgers in two different shards after three
\* transactions
C12_Witness ==
    /\ sysSteps = 3
    /\ \E c1, c2 \in Clients :
          /\ ShardsOf(c1) # {}
          /\ ShardsOf(c2) # {}
          /\ ShardsOf(c1) # ShardsOf(c2)

\* C13: with zero shards every transaction is dropped: there is no registry
\* and no ledger whatever was applied, and write() writes no row.
C13_ZeroShardsDropsAll ==
    (shards = 0) =>
        /\ systems = <<>>
        /\ \A c \in Clients : LedgersOf(c) = {}
        /\ written => (output = <<>>)

\* three transactions went to a system without shards, then write() ran
C13_Witness ==
    /\ shards = 0
    /\ sysSteps = 3
    /\ referenced # {}
    /\ written
    /\ output = <<>>

\* C14: with at least one shard, the client ids found in the registries, and
\* the client ids of the rows write() produces, are those of the transactions
\* so far, each once; the first transaction of a client creates its ledger
\* even when it changes nothing.
C14_AccountLifecycle ==
    (shards >= 1) =>
        /\ \A c \in Clients :
              Cardinality(ShardsOf(c)) = IF c \in referenced THEN 1 ELSE 0
        /\ written =>
              \A c \in Clients :
                  RowCount(output, DOMAIN output, c) = IF c \in referenced THEN 1 ELSE 0

\* a client whose only transactions changed nothing has a row of zeros
C14_Witness ==
    /\ written
    /\ \E c \in referenced :
          /\ solo[c] = AccountState_new
          /\ LedgersOf(c) = {AccountState_new}
          /\ RowCount(output, DOMAIN output, c) = 1
          /\ Output(c, AccountState_new) \in DOMAIN output

\* a Dispute that holds more than is available: the record exists and its
\* amount exceeds available()
OverHolds(a, t) ==
    /\ t.kind = "Dispute"
    /\ HasRecord(a, t.tx)
    /\ a.deposits[t.tx].amount > available(a)

\* C21 as stated: with positive amounts, available() is never negative after
\* any sequence of transactions applied to a fresh account.
C21_AvailableNeverNegative ==
    available(account) >= 0

\* C21 amended: with positive amounts, no Deposit, Withdrawal, Resolve or
\* Chargeback, and no Dispute of an amount that available() covers, makes
\* available() negative: it can fall below zero only by a Dispute of an
\* existing record whose amount exceeds available().
C21_NegativeOnlyByOverHold ==
    (last.kind # "None" /\ available(prev) >= 0 /\ ~OverHolds(prev, last)) =>
        available(account) >= 0

\* after a withdrawal, a dispute held all that was left available
C21_Witness ==
    /\ last.kind = "Dispute"
    /\ HasRecord(prev, last.tx)
    /\ withdrawn # {}
    /\ prev.total < SumAmounts(prev.deposits, DOMAIN prev.deposits)
    /\ available(prev) = prev.deposits[last.tx].amount
    /\ available(account) = 0

====
